---- MODULE Spec2Model ----
(***************************************************************************)
(* A model of the fold-result bookkeeping (results.py) and of the weighted *)
(* multi-modal fusion network (network.py).                                *)
(*                                                                         *)
(* Metrics are integers in hundredths (0.8 is 80).  An average is the      *)
(* fraction sum/count in lowest terms; count 0 gives 0/0, which is how     *)
(* numpy's mean of an empty list comes to be NaN.                          *)
(***************************************************************************)
EXTENDS Integers, Sequences, FiniteSets, TLC

VARIABLES
    objs,          \* the Result objects alive, by identity (index)
    fold_results,  \* IterationResults.fold_results: a list of Result identities
    added,         \* history: the arguments of add_result, in call order
    call,          \* the last call on results.py: operation, arguments, outcome
    training,      \* nn.Module.training of the module called and of its children
    fusion,        \* a ModalityFusion on its own: its three weights
    fcall,         \* the last call on that ModalityFusion
    subargs,       \* the arguments that SubNet was built with
    subnet,        \* a SubNet on its own: its layers and BatchNorm buffers
    scall,         \* the last call on that SubNet
    config,        \* the values of the config module, and the argument speaker_num
    net,           \* a WeightedMultiModalFusionNetwork: its layers and buffers
    ncall          \* the last call on that network

resVars == <<objs, fold_results, added, call>>

nonResVars == <<training, fusion, fcall, subargs, subnet, scall, config, net, ncall>>

fusVars == <<fusion, fcall>>

subVars == <<subargs, subnet, scall>>

netVars == <<config, net, ncall>>

vars == <<objs, fold_results, added, call, training, fusion, fcall, subargs, subnet, scall,
          config, net, ncall>>

\* ------------------------------------------------------------------ bounds

MaxResults == 2

MaxFolds == 2

MaxBatch == 2

MaxTracked == 1

\* ------------------------------------------------------------ results.py

PrecisionVals == {60, 80}

RecallVals == {70}

F1Vals == {75}

BestAccVals == {90}

BestEpochVals == {3}

\* classification_report=None
None == [none |-> TRUE]

Without(m, k) == [x \in DOMAIN m \ {k} |-> m[x]]

FullReports ==
    { [ weighted_avg |-> [precision |-> p, recall |-> r, f1_score |-> f],
        best_result  |-> [best_acc |-> a, best_epoch |-> e] ] :
      p \in PrecisionVals, r \in RecallVals, f \in F1Vals,
      a \in BestAccVals, e \in BestEpochVals }

\* The spec's example report: precision 0.8, recall 0.7, f1 0.75, best
\* accuracy 0.9 at epoch 3.
ExampleReport ==
    [ weighted_avg |-> [precision |-> 80, recall |-> 70, f1_score |-> 75],
      best_result  |-> [best_acc |-> 90, best_epoch |-> 3] ]

\* The mappings a caller may pass: complete reports, and the example report
\* lacking one of the keys set_values_from_classification_report looks up.
\* The field names weighted_avg and f1_score stand for the keys
\* "weighted avg" and "f1-score".
Reports ==
    FullReports
    \cup { Without(ExampleReport, k) : k \in {"weighted_avg", "best_result"} }
    \cup { [ExampleReport EXCEPT !.weighted_avg = Without(ExampleReport.weighted_avg, k)] :
             k \in {"precision", "recall", "f1_score"} }
    \cup { [ExampleReport EXCEPT !.best_result = Without(ExampleReport.best_result, k)] :
             k \in {"best_acc", "best_epoch"} }

HasKey(m, k) == k \in DOMAIN m

\* Result.__init__, lines 18-22
ZeroResult ==
    [best_acc |-> 0, best_epoch |-> 0, precision |-> 0, recall |-> 0, f1_score |-> 0]

\* One assignment  self.<field> = classification_report[outer][inner]  applied
\* to the pair st = [obj, exc]: nothing happens once a lookup has raised.
AssignFrom(st, field, cr, outer, inner) ==
    IF st.exc # "" THEN st
    ELSE IF ~HasKey(cr, outer) THEN [st EXCEPT !.exc = "KeyError"]
    ELSE IF ~HasKey(cr[outer], inner) THEN [st EXCEPT !.exc = "KeyError"]
    ELSE [st EXCEPT !.obj = [st.obj EXCEPT ![field] = cr[outer][inner]]]

\* Variant: precision and f1_score read from each other's key.
set_values_precision_first(self, cr) ==
    LET s0 == [obj |-> self, exc |-> ""]
        s1 == AssignFrom(s0, "precision", cr, "weighted_avg", "f1_score")
        s2 == AssignFrom(s1, "f1_score", cr, "weighted_avg", "precision")
        s3 == AssignFrom(s2, "recall", cr, "weighted_avg", "recall")
        s4 == AssignFrom(s3, "best_acc", cr, "best_result", "best_acc")
    IN  AssignFrom(s4, "best_epoch", cr, "best_result", "best_epoch")

\* Variant: a missing key keeps the old value and raises nothing.
set_values_with_defaults(self, cr) ==
    LET Get(outer, inner, old) ==
            IF HasKey(cr, outer) /\ HasKey(cr[outer], inner) THEN cr[outer][inner] ELSE old
    IN  [obj |-> [f1_score   |-> Get("weighted_avg", "f1_score", self.f1_score),
                  precision  |-> Get("weighted_avg", "precision", self.precision),
                  recall     |-> Get("weighted_avg", "recall", self.recall),
                  best_acc   |-> Get("best_result", "best_acc", self.best_acc),
                  best_epoch |-> Get("best_result", "best_epoch", self.best_epoch)],
         exc |-> ""]

\* Result.set_values_from_classification_report: the five assignments in
\* order; the object keeps what was assigned before a lookup raised.
set_values_from_classification_report(self, cr) ==
    LET s0 == [obj |-> self, exc |-> ""]
        s1 == AssignFrom(s0, "f1_score", cr, "weighted_avg", "f1_score")
        s2 == AssignFrom(s1, "precision", cr, "weighted_avg", "precision")
        s3 == AssignFrom(s2, "recall", cr, "weighted_avg", "recall")
        s4 == AssignFrom(s3, "best_acc", cr, "best_result", "best_acc")
    IN  AssignFrom(s4, "best_epoch", cr, "best_result", "best_epoch")

\* Result.__init__: zeros, then the report's values when one is given.
Result_init(cr) ==
    IF cr = None THEN [obj |-> ZeroResult, exc |-> ""]
    ELSE set_values_from_classification_report(ZeroResult, cr)

RECURSIVE GCD(_, _)
GCD(a, b) == IF b = 0 THEN a ELSE GCD(b, a % b)

RECURSIVE SumSeq(_)
SumSeq(xs) == IF xs = <<>> THEN 0 ELSE Head(xs) + SumSeq(Tail(xs))

NaN == [num |-> 0, den |-> 0]

IsNaN(q) == q.den = 0

\* Variant: the mean of no values is 0.
mean_zero_on_empty(xs) ==
    IF Len(xs) = 0 THEN [num |-> 0, den |-> 1]
    ELSE LET g == GCD(SumSeq(xs), Len(xs))
         IN  [num |-> SumSeq(xs) \div g, den |-> Len(xs) \div g]

\* Variant: the last value is left out of the mean.
mean_drops_last(xs) ==
    LET n == IF Len(xs) > 1 THEN Len(xs) - 1 ELSE Len(xs)
        s == SumSeq(SubSeq(xs, 1, n))
        g == GCD(s, n)
    IN  IF n = 0 THEN NaN ELSE [num |-> s \div g, den |-> n \div g]

\* np.mean of a list: the sum divided by the count; 0/0 (NaN, with a warning
\* and no exception) for the empty list.
np_mean(xs) ==
    LET s == SumSeq(xs)
        n == Len(xs)
        g == GCD(s, n)
    IN  IF n = 0 THEN NaN ELSE [num |-> s \div g, den |-> n \div g]

FieldOf(folds, heap, f) == [i \in 1..Len(folds) |-> heap[folds[i]][f]]

\* The "Fold i" blocks print_result writes, lines 64-70.
FoldLines(folds, heap) ==
    [i \in 1..Len(folds) |->
        [fold       |-> (i - 1) + 1,
         precision  |-> heap[folds[i]].precision,
         recall     |-> heap[folds[i]].recall,
         f1_score   |-> heap[folds[i]].f1_score,
         best_epoch |-> heap[folds[i]].best_epoch,
         best_acc   |-> heap[folds[i]].best_acc]]

\* The returned mapping of print_result, lines 72-85.
Averages(folds, heap) ==
    [precision |-> np_mean(FieldOf(folds, heap, "precision")),
     recall    |-> np_mean(FieldOf(folds, heap, "recall")),
     f1_score  |-> np_mean(FieldOf(folds, heap, "f1_score"))]

\* Variant: a result already in the list is not added again.
append_dedup(folds, r) ==
    IF \E i \in 1..Len(folds) : folds[i] = r THEN folds ELSE Append(folds, r)

\* list.append in add_result, line 55
append(folds, r) == Append(folds, r)

NoAvg == [precision |-> NaN, recall |-> NaN, f1_score |-> NaN]

Call(op, self, cr, exc, ret, out) ==
    [op |-> op, self |-> self, report |-> cr, exc |-> exc, ret |-> ret, out |-> out]

\* Variant: the five fields are shared by all Results (class attributes).
NewResult_shared_fields(cr) ==
    /\ Len(objs) < MaxResults
    /\ LET st == Result_init(cr) IN
         /\ objs' = IF st.exc = ""
                     THEN [i \in 1..(Len(objs) + 1) |-> st.obj]
                     ELSE objs
         /\ call' = Call("Result", IF st.exc = "" THEN Len(objs) + 1 ELSE 0,
                         cr, st.exc, NoAvg, <<>>)
    /\ UNCHANGED <<fold_results, added, nonResVars>>

\* r = Result() / r = Result(classification_report): a new object exists for
\* the caller only when __init__ returned.
NewResult(cr) ==
    /\ Len(objs) < MaxResults
    /\ LET st == Result_init(cr) IN
         /\ objs' = IF st.exc = "" THEN Append(objs, st.obj) ELSE objs
         /\ call' = Call("Result", IF st.exc = "" THEN Len(objs) + 1 ELSE 0,
                         cr, st.exc, NoAvg, <<>>)
    /\ UNCHANGED <<fold_results, added, nonResVars>>

\* r.set_values_from_classification_report(classification_report) on a live r
SetValues(r, cr) ==
    /\ LET st == set_values_from_classification_report(objs[r], cr) IN
         /\ objs' = [objs EXCEPT ![r] = st.obj]
         /\ call' = Call("set_values", r, cr, st.exc, NoAvg, <<>>)
    /\ UNCHANGED <<fold_results, added, nonResVars>>

\* IterationResults.add_result(result)
add_result(r) ==
    /\ Len(fold_results) < MaxFolds
    /\ fold_results' = append(fold_results, r)
    /\ added' = Append(added, r)
    /\ call' = Call("add_result", r, None, "", NoAvg, <<>>)
    /\ UNCHANGED <<objs, nonResVars>>

\* IterationResults.print_result()
print_result ==
    /\ call' = Call("print_result", 0, None, "",
                    Averages(fold_results, objs), FoldLines(fold_results, objs))
    /\ UNCHANGED <<objs, fold_results, added, nonResVars>>

ResIdle ==
    /\ objs = <<>>
    /\ fold_results = <<>>
    /\ added = <<>>
    /\ call = Call("init", 0, None, "", NoAvg, <<>>)


\* ------------------------------------------------------------ network.py
\* A tensor is a batch of rows, each a sequence of integers.  The layers
\* keep the shapes, the order of the features and the state they read and
\* write; the arithmetic is over integers.  Every weight of an nn.Linear is
\* fixed at 1 and every bias at 0, so a linear layer gives each output
\* feature the sum of the row.  A call returns [err, t]: err is "" and t the
\* tensor, or err names the exception raised.

Batch(t) == Len(t)

Width(t) == Len(t[1])

Shape(t) == <<Batch(t), Width(t)>>

Ok(t) == [err |-> "", t |-> t]

Err(e) == [err |-> e, t |-> <<>>]

Max(a, b) == IF a >= b THEN a ELSE b

\* The element of a singleton: Only({e(x) : x \in {v}}) is e with x bound to
\* the value of v, computed once.
Only(S) == CHOOSE x \in S : TRUE

\* tensor * weight, the weight of shape (1,) broadcast over both axes
Scale(t, w) == [i \in 1..Batch(t) |-> [j \in 1..Width(t) |-> t[i][j] * w]]

\* torch.cat([a, b, c], -1): the batch sizes must agree
cat3(a, b, c) ==
    IF Batch(a) # Batch(b) \/ Batch(b) # Batch(c)
    THEN Err("RuntimeError: cat sizes")
    ELSE Ok([i \in 1..Batch(a) |-> a[i] \o b[i] \o c[i]])

\* Variant: the concatenation runs video, audio, text.
fusion_video_first(w, text, audio, video) ==
    cat3(Scale(video, w[3]), Scale(audio, w[2]), Scale(text, w[1]))

\* ModalityFusion.forward
ModalityFusion_forward(w, text, audio, video) ==
    LET text_w  == Scale(text, w[1])
        audio_w == Scale(audio, w[2])
        video_w == Scale(video, w[3])
    IN  cat3(text_w, audio_w, video_w)

\* nn.Linear(in_features, out_features)
Linear(in_features, out_features) ==
    [in_features |-> in_features, out_features |-> out_features]

\* F.linear: the width of the input must be the layer's in_features
linear(layer, x) ==
    IF Width(x) # layer.in_features
    THEN Err("RuntimeError: shape mismatch")
    ELSE Ok([i \in 1..Batch(x) |-> [j \in 1..layer.out_features |-> SumSeq(x[i])]])

\* F.relu
relu(t) == [i \in 1..Batch(t) |-> [j \in 1..Width(t) |-> Max(0, t[i][j])]]

\* The element (i, j) survives a dropout draw with seed s.
Keep(s, i, j) == (s + i + j) % 2 = 0

\* nn.Dropout(p), p in percent: the identity in evaluation mode; in training
\* mode the dropped elements are zero and the kept ones scaled by 1/(1-p).
dropout(p, train, s, t) ==
    IF ~train \/ p = 0 THEN t
    ELSE [i \in 1..Batch(t) |-> [j \in 1..Width(t) |->
             IF Keep(s, i, j) THEN (t[i][j] * 100) \div (100 - p) ELSE 0]]

\* nn.BatchNorm1d(num_features): running_mean starts at 0 and
\* num_batches_tracked at 0.
BatchNorm1d(num_features) ==
    [num_features |-> num_features,
     running_mean |-> [j \in 1..num_features |-> 0],
     num_batches_tracked |-> 0]

BatchMean(x, j) == SumSeq([i \in 1..Batch(x) |-> x[i][j]]) \div Batch(x)

Centre(x, m) == [i \in 1..Batch(x) |-> [j \in 1..Width(x) |-> x[i][j] - m[j]]]

\* The running mean moves towards the batch mean (momentum taken as 1/2).
Track(bn, x) ==
    [bn EXCEPT !.running_mean =
                   [j \in 1..bn.num_features |->
                       bn.running_mean[j] + (BatchMean(x, j) - bn.running_mean[j] + 1) \div 2],
               !.num_batches_tracked = @ + 1]

\* Variant: the running statistics are updated in evaluation mode too.
batch_norm_tracks_in_eval(bn, train, x) ==
    IF train /\ Batch(x) = 1
    THEN [err |-> "ValueError: more than 1 value per channel", t |-> <<>>, bn |-> bn]
    ELSE IF Width(x) # bn.num_features
    THEN [err |-> "RuntimeError: running_mean size", t |-> <<>>, bn |-> bn]
    ELSE IF train
    THEN [err |-> "", t |-> Centre(x, [j \in 1..Width(x) |-> BatchMean(x, j)]),
          bn |-> Track(bn, x)]
    ELSE [err |-> "", t |-> Centre(x, bn.running_mean), bn |-> Track(bn, x)]

\* BatchNorm1d.forward on a (batch, features) input.  In training mode a
\* batch of one is refused, the batch statistics normalise and the running
\* statistics are updated; in evaluation mode the running statistics
\* normalise and nothing is written.
batch_norm(bn, train, x) ==
    IF train /\ Batch(x) = 1
    THEN [err |-> "ValueError: more than 1 value per channel", t |-> <<>>, bn |-> bn]
    ELSE IF Width(x) # bn.num_features
    THEN [err |-> "RuntimeError: running_mean size", t |-> <<>>, bn |-> bn]
    ELSE IF train
    THEN [err |-> "", t |-> Centre(x, [j \in 1..Width(x) |-> BatchMean(x, j)]),
          bn |-> Track(bn, x)]
    ELSE [err |-> "", t |-> Centre(x, bn.running_mean), bn |-> bn]

\* Variant: the three layers keep the input width.
SubNet_hidden_is_in_size(in_size, hidden_size, p) ==
    [norm     |-> BatchNorm1d(in_size),
     drop     |-> p,
     linear_1 |-> Linear(in_size, in_size),
     linear_2 |-> Linear(in_size, in_size),
     linear_3 |-> Linear(in_size, in_size)]

\* SubNet.__init__
SubNet(in_size, hidden_size, p) ==
    [norm     |-> BatchNorm1d(in_size),
     drop     |-> p,
     linear_1 |-> Linear(in_size, hidden_size),
     linear_2 |-> Linear(hidden_size, hidden_size),
     linear_3 |-> Linear(hidden_size, hidden_size)]

\* layer(x) on the result before it, or the error before it
Lin(layer, before) ==
    Only({ IF r.err # "" THEN r ELSE linear(layer, r.t) : r \in {before} })

\* F.relu(layer(x)), or the error of either
LinearRelu(layer, before) ==
    Only({ IF y.err # "" THEN y ELSE Ok(relu(y.t)) : y \in {Lin(layer, before)} })

\* dropout on the result before it, or the error before it
Dropped(p, train, s, before) ==
    Only({ IF r.err # "" THEN r ELSE Ok(dropout(p, train, s, r.t)) : r \in {before} })

\* SubNet.forward: returns [err, t, sn], sn the SubNet after the call.
SubNet_forward(sn, train, s, x) ==
    Only({ Only({ [err |-> y_3.err, t |-> y_3.t, sn |-> [sn EXCEPT !.norm = normed.bn]] :
                  y_3 \in { LinearRelu(sn.linear_3,
                              LinearRelu(sn.linear_2,
                                LinearRelu(sn.linear_1,
                                  Dropped(sn.drop, train, s,
                                          [err |-> normed.err, t |-> normed.t])))) } }) :
           normed \in {batch_norm(sn.norm, train, x)} })

\* A SubNet called after the calls before it returned; not called, and so
\* unchanged, when one of them raised.
Then(before, sn, train, s, x) ==
    IF before.err # "" THEN [err |-> before.err, t |-> <<>>, sn |-> sn]
    ELSE SubNet_forward(sn, train, s, x)

\* torch.cat([x, speaker_h, context_h], dim=-1) on the result before it
LateFusion(before, speaker_h, context_h) ==
    Only({ IF x.err # "" THEN x ELSE cat3(x.t, speaker_h.t, context_h.t) : x \in {before} })

\* Lines 123-141 of forward, the five encodings given.
PostFusion(n, train, s, video_h, audio_h, text_h, speaker_h, context_h) ==
    LET p        == n.post_fusion_dropout
        fusion_h == IF context_h.err # "" THEN Err(context_h.err)
                    ELSE ModalityFusion_forward(n.fusion, text_h.t, audio_h.t, video_h.t)
    IN  Lin(n.fc,
          Dropped(p, train, s,
            LinearRelu(n.post_fusion_layer_3,
              Dropped(p, train, s,
                LateFusion(
                  LinearRelu(n.post_fusion_layer_2,
                    Dropped(p, train, s,
                      LinearRelu(n.post_fusion_layer_1,
                        Dropped(p, train, s, fusion_h)))),
                  speaker_h, context_h)))))

\* Variant: post_fusion_layer_1 is sized without the audio encoding.
Network_layer_1_without_audio(cfg) ==
    [video_subnet   |-> SubNet(cfg.VIDEO_DIM, cfg.VIDEO_HIDDEN, cfg.VIDEO_DROPOUT),
     audio_subnet   |-> SubNet(cfg.AUDIO_DIM, cfg.AUDIO_HIDDEN, cfg.AUDIO_DROPOUT),
     text_subnet    |-> SubNet(cfg.TEXT_DIM, cfg.TEXT_HIDDEN, cfg.TEXT_DROPOUT),
     context_subnet |-> SubNet(cfg.TEXT_DIM, cfg.CONTEXT_HIDDEN, cfg.CONTEXT_DROPOUT),
     speaker_subnet |-> SubNet(cfg.speaker_num, cfg.SPEAKER_HIDDEN, cfg.SPEAKER_DROPOUT),
     fusion         |-> <<1, 1, 1>>,
     post_fusion_dropout |-> cfg.POST_FUSION_DROPOUT,
     post_fusion_layer_1 |->
         Linear(cfg.TEXT_HIDDEN + cfg.VIDEO_HIDDEN, cfg.POST_FUSION_DIM),
     post_fusion_layer_2 |-> Linear(cfg.POST_FUSION_DIM, cfg.POST_FUSION_DIM),
     post_fusion_layer_3 |->
         Linear(cfg.POST_FUSION_DIM + cfg.SPEAKER_HIDDEN + cfg.CONTEXT_HIDDEN,
                cfg.POST_FUSION_DIM),
     fc |-> Linear(cfg.POST_FUSION_DIM, 2)]

\* WeightedMultiModalFusionNetwork.__init__(speaker_num), reading config
Network(cfg) ==
    [video_subnet   |-> SubNet(cfg.VIDEO_DIM, cfg.VIDEO_HIDDEN, cfg.VIDEO_DROPOUT),
     audio_subnet   |-> SubNet(cfg.AUDIO_DIM, cfg.AUDIO_HIDDEN, cfg.AUDIO_DROPOUT),
     text_subnet    |-> SubNet(cfg.TEXT_DIM, cfg.TEXT_HIDDEN, cfg.TEXT_DROPOUT),
     context_subnet |-> SubNet(cfg.TEXT_DIM, cfg.CONTEXT_HIDDEN, cfg.CONTEXT_DROPOUT),
     speaker_subnet |-> SubNet(cfg.speaker_num, cfg.SPEAKER_HIDDEN, cfg.SPEAKER_DROPOUT),
     fusion         |-> <<1, 1, 1>>,
     post_fusion_dropout |-> cfg.POST_FUSION_DROPOUT,
     post_fusion_layer_1 |->
         Linear(cfg.TEXT_HIDDEN + cfg.VIDEO_HIDDEN + cfg.AUDIO_HIDDEN, cfg.POST_FUSION_DIM),
     post_fusion_layer_2 |-> Linear(cfg.POST_FUSION_DIM, cfg.POST_FUSION_DIM),
     post_fusion_layer_3 |->
         Linear(cfg.POST_FUSION_DIM + cfg.SPEAKER_HIDDEN + cfg.CONTEXT_HIDDEN,
                cfg.POST_FUSION_DIM),
     fc |-> Linear(cfg.POST_FUSION_DIM, 2)]

\* WeightedMultiModalFusionNetwork.forward: returns [err, t, net], net the
\* network after the call (the BatchNorm buffers of the SubNets that ran).
Network_forward(n, train, s, text_x, video_x, audio_x, speaker_x, context_x) ==
    Only({ Only({ Only({ Only({ Only({ Only({
        [err |-> out.err, t |-> out.t,
         net |-> [n EXCEPT !.video_subnet = video_h.sn,
                           !.audio_subnet = audio_h.sn,
                           !.text_subnet = text_h.sn,
                           !.speaker_subnet = speaker_h.sn,
                           !.context_subnet = context_h.sn]] :
        out       \in {PostFusion(n, train, s, video_h, audio_h, text_h,
                                  speaker_h, context_h)} }) :
        context_h \in {Then(speaker_h, n.context_subnet, train, s, context_x)} }) :
        speaker_h \in {Then(text_h, n.speaker_subnet, train, s, speaker_x)} }) :
        text_h    \in {Then(audio_h, n.text_subnet, train, s, text_x)} }) :
        audio_h   \in {Then(video_h, n.audio_subnet, train, s, audio_x)} }) :
        video_h   \in {SubNet_forward(n.video_subnet, train, s, video_x)} })

\* ------------------------------------------------------------ the inputs

Dims == {1, 2}

Rates == {0, 50}

Seeds == {0, 1}

\* A (b, w) tensor of ones, and one whose row i holds i*v, i*v + 1, ...
Ones(b, w) == [i \in 1..b |-> [j \in 1..w |-> 1]]

Rows(b, w, v) == [i \in 1..b |-> [j \in 1..w |-> i * v + (j - 1)]]

\* The configurations tried.  The three hidden sizes that add up to the
\* width of post_fusion_layer_1 vary independently; k sets the text width
\* and the context hidden size, and the other way round the speaker hidden
\* size and the post-fusion width; one dropout rate serves every layer.
Configs ==
    { [TEXT_DIM |-> k, VIDEO_DIM |-> 2, AUDIO_DIM |-> 1, speaker_num |-> 2,
       TEXT_HIDDEN |-> th, VIDEO_HIDDEN |-> vh, AUDIO_HIDDEN |-> ah,
       CONTEXT_HIDDEN |-> k, SPEAKER_HIDDEN |-> 3 - k, POST_FUSION_DIM |-> 3 - k,
       TEXT_DROPOUT |-> r, VIDEO_DROPOUT |-> r, AUDIO_DROPOUT |-> r,
       CONTEXT_DROPOUT |-> r, SPEAKER_DROPOUT |-> r, POST_FUSION_DROPOUT |-> r] :
      k \in Dims, th \in Dims, vh \in Dims, ah \in Dims, r \in Rates }

FusionWeights == {<<1, 1, 1>>, <<2, 3, 5>>}

NoCall == [op |-> "init", training |-> TRUE, inputs |-> <<>>, err |-> "", t |-> <<>>]

ModCall(op, train, inputs, r) ==
    [op |-> op, training |-> train, inputs |-> inputs, err |-> r.err, t |-> r.t]

\* No module of the kind has been built.
NoModule == <<>>

FusIdle ==
    /\ fusion = NoModule
    /\ fcall = NoCall

SubIdle ==
    /\ subargs = NoModule
    /\ subnet = NoModule
    /\ scall = NoCall

NetIdle ==
    /\ config = NoModule
    /\ net = NoModule
    /\ ncall = NoCall

\* --------------------------------------------- the calls on results.py

ResInit ==
    /\ ResIdle /\ FusIdle /\ SubIdle /\ NetIdle
    /\ training = TRUE

ResNext ==
    \/ \E cr \in Reports \cup {None} : NewResult(cr)
    \/ \E r \in 1..Len(objs), cr \in Reports : SetValues(r, cr)
    \/ \E r \in 1..Len(objs) : add_result(r)
    \/ print_result

SpecResults == ResInit /\ [][ResNext]_vars

\* ------------------------------------------------- a ModalityFusion alone

\* The optimizer (or a test) sets the three weights.
SetFusionWeights(w) ==
    /\ fusion' = w
    /\ fcall' = ModCall("set_weights", TRUE, <<>>, Ok(<<>>))
    /\ UNCHANGED <<resVars, subVars, netVars, training>>

FusionForward(text, audio, video) ==
    /\ fcall' = ModCall("forward", TRUE, <<text, audio, video>>,
                        ModalityFusion_forward(fusion, text, audio, video))
    /\ UNCHANGED <<fusion, resVars, subVars, netVars, training>>

FusionInputs == { Ones(b, w) : b \in 1..MaxBatch, w \in Dims \cup {3} }
                \cup { Rows(1, w, 1) : w \in Dims }

\* ModalityFusion.__init__: the three weights start at 1.
FusInit ==
    /\ ResIdle /\ SubIdle /\ NetIdle
    /\ training = TRUE
    /\ fusion = <<1, 1, 1>>
    /\ fcall = NoCall

FusNext ==
    \/ \E w \in FusionWeights \cup {<<5, 3, 2>>} : SetFusionWeights(w)
    \/ \E text \in FusionInputs, audio \in FusionInputs, video \in FusionInputs :
          FusionForward(text, audio, video)

SpecFusion == FusInit /\ [][FusNext]_vars

\* ------------------------------------------------------- a SubNet alone

\* subnet.train() / subnet.eval()
SubTrain(mode) ==
    /\ training' = mode
    /\ scall' = ModCall(IF mode THEN "train" ELSE "eval", mode, <<>>, Ok(<<>>))
    /\ UNCHANGED <<subargs, subnet, resVars, fusVars, netVars>>

\* subnet(x); s is the draw of the dropout mask, read in training mode only
SubForward(x, s) ==
    /\ subnet.norm.num_batches_tracked < MaxTracked \/ ~training
    /\ LET r == SubNet_forward(subnet, training, s, x) IN
         /\ subnet' = r.sn
         /\ scall' = ModCall("forward", training, <<x>>, r)
    /\ UNCHANGED <<training, subargs, resVars, fusVars, netVars>>

SubInputs == { Rows(b, w, v) : b \in 1..MaxBatch, w \in Dims \cup {3}, v \in {1, 2} }

SubInit ==
    /\ ResIdle /\ FusIdle /\ NetIdle
    /\ training = TRUE
    /\ subargs \in [in_size : Dims, hidden_size : Dims \cup {3}, dropout : Rates]
    /\ subnet = SubNet(subargs.in_size, subargs.hidden_size, subargs.dropout)
    /\ scall = NoCall

SubNext ==
    \/ \E mode \in BOOLEAN : SubTrain(mode)
    \/ \E x \in SubInputs, s \in Seeds : SubForward(x, s)

SpecSubNet == SubInit /\ [][SubNext]_vars

\* ------------------------------------------------------------ the network

\* The inputs of a forward call: batch b of rows of the configured widths,
\* input number bad (if any) one feature too wide.
NetInputs(b, bad) ==
    LET W(k, w) == IF bad = k THEN w + 1 ELSE w
    IN  << Rows(b, W(1, config.TEXT_DIM), 1),
           Rows(b, W(2, config.VIDEO_DIM), 1),
           Rows(b, W(3, config.AUDIO_DIM), 1),
           Rows(b, W(4, config.speaker_num), 1),
           Rows(b, W(5, config.TEXT_DIM), 1) >>

InputChoices ==
    { <<b, 0>> : b \in 1..MaxBatch } \cup { <<MaxBatch, bad>> : bad \in 1..5 }

Tracked(n) ==
    { n.video_subnet.norm.num_batches_tracked, n.audio_subnet.norm.num_batches_tracked,
      n.text_subnet.norm.num_batches_tracked, n.speaker_subnet.norm.num_batches_tracked,
      n.context_subnet.norm.num_batches_tracked }

\* model.train() / model.eval()
NetTrain(mode) ==
    /\ training' = mode
    /\ ncall' = ModCall(IF mode THEN "train" ELSE "eval", mode, <<>>, Ok(<<>>))
    /\ UNCHANGED <<net, config, resVars, fusVars, subVars>>

\* model(text_x, video_x, audio_x, speaker_x, context_x); s is the draw of
\* the dropout masks, read in training mode only
Forward(in, s) ==
    /\ ~training \/ \A k \in Tracked(net) : k < MaxTracked
    /\ LET r == Network_forward(net, training, s, in[1], in[2], in[3], in[4], in[5]) IN
         /\ net' = r.net
         /\ ncall' = ModCall("forward", training, in, r)
    /\ UNCHANGED <<training, config, resVars, fusVars, subVars>>

\* optimizer.step(): the learned weights change (here the fusion weights).
OptimizerStep(w) ==
    /\ net' = [net EXCEPT !.fusion = w]
    /\ ncall' = ModCall("step", training, <<>>, Ok(<<>>))
    /\ UNCHANGED <<training, config, resVars, fusVars, subVars>>

NetInit ==
    /\ ResIdle /\ FusIdle /\ SubIdle
    /\ training = TRUE
    /\ config \in Configs
    /\ net = Network(config)
    /\ ncall = NoCall

NetNext ==
    \/ \E mode \in BOOLEAN : NetTrain(mode)
    \/ \E c \in InputChoices, s \in (IF training THEN Seeds ELSE {0}) :
          Forward(NetInputs(c[1], c[2]), s)
    \/ \E w \in FusionWeights : OptimizerStep(w)

SpecNet == NetInit /\ [][NetNext]_vars

\* ------------------------------------------------- properties, results.py

RequiredKeys ==
    { <<"weighted_avg", "precision", "precision">>,
      <<"weighted_avg", "recall", "recall">>,
      <<"weighted_avg", "f1_score", "f1_score">>,
      <<"best_result", "best_acc", "best_acc">>,
      <<"best_result", "best_epoch", "best_epoch">> }

Present(cr, k) == HasKey(cr, k[1]) /\ HasKey(cr[k[1]], k[2])

LacksKey(cr) == cr # None /\ \E k \in RequiredKeys : ~Present(cr, k)

FoldSum(f) == SumSeq([i \in 1..Len(fold_results) |-> objs[fold_results[i]][f]])

\* C1: print_result on a non-empty fold list returns exactly the keys
\* precision, recall and f1_score, each the arithmetic mean (sum over the
\* folds divided by the number of folds) of that field of the added Results.
C1_PrintReturnsMeans ==
    (call.op = "print_result" /\ Len(fold_results) > 0) =>
        /\ DOMAIN call.ret = {"precision", "recall", "f1_score"}
        /\ \A f \in DOMAIN call.ret :
              /\ call.ret[f].den > 0
              /\ call.ret[f].num * Len(fold_results) = call.ret[f].den * FoldSum(f)

\* Two folds with precision 0.8 and 0.6 average to 0.7.
C1_Witness ==
    /\ call.op = "print_result"
    /\ Len(fold_results) = 2
    /\ objs[fold_results[1]].precision = 80
    /\ objs[fold_results[2]].precision = 60
    /\ call.ret.precision = [num |-> 70, den |-> 1]

\* C6: Result() has all five fields zero; Result(report) has precision,
\* recall, f1_score from the report's "weighted avg" entry and best_acc,
\* best_epoch from its "best_result" entry.
C6_ResultConstruction ==
    (call.op = "Result" /\ call.exc = "") =>
        LET r == objs[call.self] IN
        IF call.report = None
        THEN /\ r.precision = 0 /\ r.recall = 0 /\ r.f1_score = 0
             /\ r.best_acc = 0 /\ r.best_epoch = 0
        ELSE /\ r.precision = call.report.weighted_avg.precision
             /\ r.recall = call.report.weighted_avg.recall
             /\ r.f1_score = call.report.weighted_avg.f1_score
             /\ r.best_acc = call.report.best_result.best_acc
             /\ r.best_epoch = call.report.best_result.best_epoch

C6_Witness ==
    /\ call.op = "Result"
    /\ call.report = ExampleReport
    /\ objs[call.self] = [precision |-> 80, recall |-> 70, f1_score |-> 75,
                          best_acc |-> 90, best_epoch |-> 3]
    /\ \E i \in 1..Len(objs) : objs[i] = ZeroResult

\* C7: print_result on an empty fold list raises nothing and returns NaN
\* for each of precision, recall and f1_score.
C7_EmptyFoldsGiveNaN ==
    (call.op = "print_result" /\ fold_results = <<>>) =>
        /\ call.exc = ""
        /\ call.out = <<>>
        /\ \A f \in {"precision", "recall", "f1_score"} : IsNaN(call.ret[f])

C7_Witness ==
    /\ call.op = "print_result"
    /\ fold_results = <<>>
    /\ IsNaN(call.ret.precision)
    /\ Len(objs) > 0

\* C8: a call of Result(report) or set_values_from_classification_report
\* with a report lacking a required key ends in KeyError; the constructor
\* then yields no object, and no field whose key is missing is assigned.
C8_MissingKeyRaises ==
    [][ (call'.op \in {"Result", "set_values"} /\ LacksKey(call'.report)) =>
           /\ call'.exc = "KeyError"
           /\ call'.op = "Result" => (call'.self = 0 /\ objs' = objs)
           /\ call'.op = "set_values" =>
                 \A k \in RequiredKeys :
                    ~Present(call'.report, k) =>
                        objs'[call'.self][k[3]] = objs[call'.self][k[3]]
      ]_vars

\* A live Result keeps the lookups made before the failing one.
C8_Witness ==
    /\ call.op = "set_values"
    /\ call.exc = "KeyError"
    /\ ~HasKey(call.report, "best_result")
    /\ objs[call.self].precision = 80
    /\ objs[call.self].best_acc = 0

\* C9 as stated: no operation changes a field of a Result that holds the
\* values of a classification report.
C9_ResultImmutable ==
    [][ \A i \in 1..Len(objs) :
           (\E cr \in FullReports : objs[i] = Result_init(cr).obj) => objs'[i] = objs[i]
      ]_vars

\* C9 amended: constructing Results, add_result and print_result change no
\* field of an already constructed Result; only
\* set_values_from_classification_report does.
C9_OnlySetValuesMutates ==
    [][ call'.op # "set_values" => \A i \in 1..Len(objs) : objs'[i] = objs[i] ]_vars

C9_Witness ==
    /\ call.op = "print_result"
    /\ Len(fold_results) = 2
    /\ Len(objs) = 2
    /\ objs[1].precision = 80 /\ objs[1].best_epoch = 3
    /\ objs[2].precision = 60

\* C10: fold_results is the sequence of add_result arguments in call order
\* (duplicates kept), print_result leaves it so, and print_result writes
\* one block per fold, in that order, numbered from 1.
C10_FoldOrder ==
    /\ fold_results = added
    /\ call.op = "print_result" =>
          /\ Len(call.out) = Len(added)
          /\ \A i \in 1..Len(added) :
                /\ call.out[i].fold = i
                /\ call.out[i].precision = objs[added[i]].precision
                /\ call.out[i].recall = objs[added[i]].recall
                /\ call.out[i].f1_score = objs[added[i]].f1_score
                /\ call.out[i].best_epoch = objs[added[i]].best_epoch
                /\ call.out[i].best_acc = objs[added[i]].best_acc

C10_Witness ==
    /\ call.op = "print_result"
    /\ added = <<2, 2>>
    /\ objs[1].precision # objs[2].precision
    /\ call.out[2].fold = 2


\* ------------------------------------------------- properties, network.py

CorrectlyDimensioned(in) ==
    /\ Width(in[1]) = config.TEXT_DIM
    /\ Width(in[2]) = config.VIDEO_DIM
    /\ Width(in[3]) = config.AUDIO_DIM
    /\ Width(in[4]) = config.speaker_num
    /\ Width(in[5]) = config.TEXT_DIM
    /\ \A k \in 2..5 : Batch(in[k]) = Batch(in[1])

\* C2: forward returns a (batch, 2) tensor for five inputs of the configured
\* widths and a batch size the network accepts (any in evaluation mode, two
\* or more in training mode, where BatchNorm1d refuses a batch of one), and
\* for such inputs no linear layer ever meets a width other than its own:
\* the widths of the three post-fusion layers and of fc are the sums and
\* widths the pipeline produces.
C2_ForwardShape ==
    /\ net.post_fusion_layer_1.in_features =
          net.text_subnet.linear_3.out_features
          + net.audio_subnet.linear_3.out_features
          + net.video_subnet.linear_3.out_features
    /\ net.post_fusion_layer_2.in_features = net.post_fusion_layer_1.out_features
    /\ net.post_fusion_layer_3.in_features =
          net.post_fusion_layer_2.out_features
          + net.speaker_subnet.linear_3.out_features
          + net.context_subnet.linear_3.out_features
    /\ net.fc.in_features = net.post_fusion_layer_3.out_features
    /\ (ncall.op = "forward" /\ CorrectlyDimensioned(ncall.inputs)) =>
          /\ ncall.err # "RuntimeError: shape mismatch"
          /\ (~ncall.training \/ Batch(ncall.inputs[1]) >= 2) =>
                /\ ncall.err = ""
                /\ Shape(ncall.t) = <<Batch(ncall.inputs[1]), 2>>

C2_Witness ==
    /\ ncall.op = "forward"
    /\ ncall.training
    /\ CorrectlyDimensioned(ncall.inputs)
    /\ config.TEXT_HIDDEN = 2 /\ config.VIDEO_HIDDEN = 1 /\ config.AUDIO_HIDDEN = 2
    /\ config.POST_FUSION_DIM = 1
    /\ ncall.err = ""
    /\ Shape(ncall.t) = <<2, 2>>

\* C3: ModalityFusion.forward(text, audio, video) returns, for inputs of one
\* batch size, rows whose width is the sum of the three widths and that
\* hold text * weight_1, then audio * weight_2, then video * weight_3.
C3_WeightedConcatenation ==
    (fcall.op = "forward"
        /\ Batch(fcall.inputs[1]) = Batch(fcall.inputs[2])
        /\ Batch(fcall.inputs[2]) = Batch(fcall.inputs[3])) =>
        LET text  == fcall.inputs[1]
            audio == fcall.inputs[2]
            video == fcall.inputs[3]
            wt    == Width(text)
            wa    == Width(audio)
        IN  /\ fcall.err = ""
            /\ Shape(fcall.t) = <<Batch(text), wt + wa + Width(video)>>
            /\ \A i \in 1..Batch(text) :
                  /\ \A j \in 1..wt : fcall.t[i][j] = text[i][j] * fusion[1]
                  /\ \A j \in 1..wa : fcall.t[i][wt + j] = audio[i][j] * fusion[2]
                  /\ \A j \in 1..Width(video) :
                        fcall.t[i][wt + wa + j] = video[i][j] * fusion[3]

\* Weights 2, 3, 5 on all-ones inputs of widths 1, 2, 3.
C3_Witness ==
    /\ fcall.op = "forward"
    /\ fusion = <<2, 3, 5>>
    /\ fcall.inputs = <<Ones(2, 1), Ones(2, 2), Ones(2, 3)>>
    /\ fcall.t = << <<2, 3, 3, 5, 5, 5>>, <<2, 3, 3, 5, 5, 5>> >>

\* C4 as stated: SubNet.forward returns a (batch, hidden_size) tensor for
\* every (batch, in_size) input with batch >= 1, in either mode.
C4_SubNetShapeAnyMode ==
    (scall.op = "forward"
        /\ Width(scall.inputs[1]) = subargs.in_size
        /\ Batch(scall.inputs[1]) >= 1) =>
        /\ scall.err = ""
        /\ Shape(scall.t) = <<Batch(scall.inputs[1]), subargs.hidden_size>>

\* C4 amended: it does so in evaluation mode for batch >= 1 and in training
\* mode for batch >= 2; in training mode a batch of one is refused by
\* BatchNorm1d with a ValueError.
C4_SubNetShape ==
    (scall.op = "forward" /\ Width(scall.inputs[1]) = subargs.in_size) =>
        IF scall.training /\ Batch(scall.inputs[1]) = 1
        THEN scall.err = "ValueError: more than 1 value per channel"
        ELSE /\ scall.err = ""
             /\ Shape(scall.t) = <<Batch(scall.inputs[1]), subargs.hidden_size>>

C4_Witness ==
    /\ scall.op = "forward"
    /\ ~scall.training
    /\ subargs.in_size = 2 /\ subargs.hidden_size = 3
    /\ Shape(scall.inputs[1]) = <<1, 2>>
    /\ Shape(scall.t) = <<1, 3>>
    /\ subnet.norm.num_batches_tracked = 1

\* C5: a forward call in evaluation mode writes nothing the network reads
\* (layers, weights, BatchNorm buffers), and when the call before it was a
\* forward call in evaluation mode with the same five inputs, it returns
\* what that call returned.
C5_EvalDeterministic ==
    [][ (ncall'.op = "forward" /\ ~ncall'.training) =>
           /\ net' = net
           /\ (ncall.op = "forward" /\ ~ncall.training /\ ncall'.inputs = ncall.inputs) =>
                 (ncall'.err = ncall.err /\ ncall'.t = ncall.t)
      ]_vars

\* An evaluation-mode call on a network whose running statistics a training
\* call has moved, with dropout configured and the fusion weights trained.
C5_Witness ==
    /\ ncall.op = "forward"
    /\ ~ncall.training
    /\ ncall.err = ""
    /\ config.POST_FUSION_DROPOUT = 50
    /\ net.fusion = <<2, 3, 5>>
    /\ net.video_subnet.norm.num_batches_tracked = 1
    /\ net.video_subnet.norm.running_mean # <<0, 0>>
    /\ \E i \in 1..Batch(ncall.t) : ncall.t[i] # <<0, 0>>

====
